---------------------------- MODULE Spec2Model ----------------------------
(***************************************************************************)
(* Model of globalPlugins/webAccess/nodeHandler.py (Web Access for NVDA):  *)
(* the NodeManager update protocol, the expat-driven tree builder, the    *)
(* NodeField tree and its searches.                                        *)
(*                                                                         *)
(* Conventions.  A Python unicode string is a sequence of code points      *)
(* (naturals).  A NodeField object is a record; an object reference is an  *)
(* index: n > 0 is nodes[n] (the tree mainNode belongs to), n < 0 is       *)
(* deleted[-n] (an object of a tree that went through recursiveDelete and  *)
(* that somebody may still hold), 0 is None.  hasattr(o, "x") is           *)
(* "x" \in o.attrs.                                                        *)
(***************************************************************************)
EXTENDS Integers, Sequences, FiniteSets, TLC

\* ------------------------------------------------------------------ bounds
MaxExtent == 2      \* the source reports extents 1..MaxExtent
MaxCaret == 2       \* the caret offset of the source ranges over 0..MaxCaret
MaxTime == 2        \* time.time() stamps 1..MaxTime; update() is not called later
MaxBackends == 1    \* backends 1..MaxBackends may register
MaxBlocks == 2      \* elements under the root of the parse followed by events
MaxIndex == 1       \* searches are called with maxIndex 0..MaxIndex
MaxClassLen == 3    \* class attributes are up to MaxClassLen characters long

\* ------------------------------------------------------- values of the code
None == 0

REPLACEMENT == 65533             \* u'\ufffd'
MaxCodePoint == 65535            \* unichr() of a narrow build accepts 0..0xFFFF
SPACE == 32
STAR == 42

\* ---------------------------------------------------------------- snapshots
\* What expat delivers for a snapshot: a sequence of events.
Start(tag, role, className, value) ==
    [type |-> "start", tag |-> tag, role |-> role, className |-> className,
     value |-> value, data |-> <<>>]

End(tag) ==
    [type |-> "end", tag |-> tag, role |-> "", className |-> <<>>,
     value |-> <<>>, data |-> <<>>]

Data(data) ==
    [type |-> "data", tag |-> "", role |-> "", className |-> <<>>,
     value |-> <<>>, data |-> data]

\* The attribute value of <unich value="..."/>: <<>> when the attribute is
\* absent, else <<v>> with v the integer int() yields (-1: int() raises).
NoValue == <<>>

\* <unich/>: no element that makes a node
DocNoTree ==
    << Start("unich", "", <<>>, NoValue), End("unich") >>

\* <control role=section class=""><control role=link class="a b"><text>a</text>
\* </control><text>b<unich value="99"/></text></control>
DocSection ==
    << Start("control", "section", <<>>, NoValue),
       Start("control", "link", <<97, SPACE, 98>>, NoValue),
       Start("text", "", <<>>, NoValue), Data(<<97>>), End("text"),
       End("control"),
       Start("text", "", <<>>, NoValue), Data(<<98>>),
       Start("unich", "", <<>>, <<99>>), End("unich"),
       End("text"),
       End("control") >>

\* <control role=section><foo/>...: an unknown tag after the root was made
DocUnknownTag ==
    << Start("control", "section", <<>>, NoValue),
       Start("foo", "", <<>>, NoValue), End("foo"),
       End("control") >>

\* <control role=link>ab</control>: character data right inside a control
DocTextInControl ==
    << Start("control", "link", <<>>, NoValue), Data(<<97, 98>>),
       End("control") >>

\* the documents a snapshot may capture
Docs == << DocNoTree, DocSection, DocUnknownTag, DocTextInControl >>

DocIds == 1 .. Len(Docs)

\* Snapshots of the parse followed event by event: a root section holding a
\* few elements.  Code points: a = 97, b = 98, h = 104, x = 120.
TextElement(data) ==
    << Start("text", "", <<>>, NoValue), Data(data), End("text") >>

ControlElement(role, className, content) ==
    << Start("control", role, className, NoValue) >> \o content
    \o << End("control") >>

Blocks ==
    << \* <control role=link><text>ab</text></control>
       ControlElement("link", <<>>, TextElement(<<97, 98>>)),
       \* <control role=link><text>a</text></control>
       ControlElement("link", <<>>, TextElement(<<97>>)),
       \* <control role=link class="h"><text>ab</text></control>
       ControlElement("link", <<104>>, TextElement(<<97, 98>>)),
       \* <control role=section class="x"><control role=link><text>ab</text>
       \* </control></control>
       ControlElement("section", <<120>>,
                      ControlElement("link", <<>>, TextElement(<<97, 98>>))),
       \* <text>a<unich value="98"/></text>
       << Start("text", "", <<>>, NoValue), Data(<<97>>),
          Start("unich", "", <<>>, <<98>>), End("unich"), End("text") >>,
       \* <control role=link/>
       ControlElement("link", <<>>, <<>>),
       \* <text>a<control role=link><text>b</text></control></text>
       << Start("text", "", <<>>, NoValue), Data(<<97>>) >>
       \o ControlElement("link", <<>>, TextElement(<<98>>))
       \o << End("text") >>,
       \* <control role=link><text>b</text><text>ab</text></control>
       ControlElement("link", <<>>,
                      TextElement(<<98>>) \o TextElement(<<97, 98>>)) >>

BlockLists ==
    UNION { [1 .. k -> 1 .. Len(Blocks)] : k \in 1 .. MaxBlocks }

RECURSIVE Concat(_)
Concat(list) ==
    IF list = <<>> THEN <<>> ELSE Blocks[Head(list)] \o Concat(Tail(list))

TreeDocs ==
    { ControlElement("section", <<>>, Concat(list)) : list \in BlockLists }


\* ------------------------------------------------------------- NodeField
\* NodeField.__init__ for the two node types the builder makes.  ev carries
\* the attrs of the element; b is the builder (the manager's parse fields).
NodeField(nodeType, ev, parent, offset, lastTextNode) ==
    [nodeType |-> nodeType,
     attrs |-> {nodeType},
     nodeManager |-> TRUE,
     parent |-> parent,
     offset |-> offset,
     size |-> 0,
     children |-> <<>>,
     text |-> <<>>,
     role |-> IF nodeType = "control" THEN ev.role ELSE "0",
     className |-> IF nodeType = "control" THEN ev.className ELSE <<>>,
     previousTextNode |-> lastTextNode]

\* hasattr(node, name)
HasAttr(ns, n, name) == name \in ns[n].attrs

\* bool(node): NodeField defines __len__ (size), so a node of size 0 is falsy.
Truthy(ns, n) == n # None /\ ns[n].size # 0

\* --------------------------------------------------------------- builder
\* The parse state parseXML resets: the nodes made so far and the manager
\* fields currentParentNode, fieldOffset, lastTextNode, mainNode; raised is
\* TRUE once a handler raised (expat then stops and Parse re-raises).
NewBuilder ==
    [nodes |-> <<>>, currentParentNode |-> None, fieldOffset |-> 0,
     lastTextNode |-> None, mainNode |-> None, raised |-> FALSE]

Raise(b) == [b EXCEPT !.raised = TRUE]

\* unichr(int(data)) with the ValueError fallback
Unichr(v) == IF v >= 0 /\ v <= MaxCodePoint THEN v ELSE REPLACEMENT

\* the handler without line 149
_CharacterDataHandler_forgetsLast(b, data) ==
    LET p == b.currentParentNode IN
    IF p = None \/ ~HasAttr(b.nodes, p, "format")
    THEN Raise(b)
    ELSE [b EXCEPT
            !.nodes[p].size = Len(data),
            !.nodes[p].text = data,
            !.nodes[p].attrs = @ \cup {"text"},
            !.fieldOffset = @ + Len(data)]

\* the handler without line 148
_CharacterDataHandler_noAdvance(b, data) ==
    LET p == b.currentParentNode IN
    IF p = None \/ ~HasAttr(b.nodes, p, "format")
    THEN Raise(b)
    ELSE [b EXCEPT
            !.nodes[p].size = Len(data),
            !.nodes[p].text = data,
            !.nodes[p].attrs = @ \cup {"text"},
            !.lastTextNode = p]

_CharacterDataHandler(b, data) ==
    LET p == b.currentParentNode IN
    IF p = None \/ ~HasAttr(b.nodes, p, "format")
    THEN Raise(b)
    ELSE [b EXCEPT
            !.nodes[p].size = Len(data),
            !.nodes[p].text = data,
            !.nodes[p].attrs = @ \cup {"text"},
            !.fieldOffset = @ + Len(data),
            !.lastTextNode = p]

\* lines 106-127: make the node, link it under its parent, descend
OpenNode(b, nodeType, ev) ==
    LET parent == b.currentParentNode
        id == Len(b.nodes) + 1
        node == NodeField(nodeType, ev, parent, b.fieldOffset, b.lastTextNode)
        linked == IF parent = None
                  THEN Append(b.nodes, node)
                  ELSE Append([b.nodes EXCEPT ![parent].children = Append(@, id)],
                              node)
    IN [b EXCEPT
          !.nodes = linked,
          !.currentParentNode = id,
          !.mainNode = IF @ = None THEN id ELSE @]

_startElementHandler(b, ev) ==
    IF ev.tag = "unich"
    THEN IF ev.value # NoValue
         THEN _CharacterDataHandler(b, << Unichr(ev.value[1]) >>)
         ELSE b
    ELSE IF ev.tag = "control" THEN OpenNode(b, "control", ev)
    ELSE IF ev.tag = "text" THEN OpenNode(b, "format", ev)
    ELSE Raise(b)

_EndElementHandler(b, ev) ==
    IF ev.tag = "unich" THEN b
    ELSE IF ev.tag \in {"control", "text"}
    THEN LET cur == b.currentParentNode
             parent == b.nodes[cur].parent
         IN [b EXCEPT
               !.nodes = IF parent # None
                         THEN [@ EXCEPT ![parent].size = @ + b.nodes[cur].size]
                         ELSE @,
               !.currentParentNode = parent]
    ELSE Raise(b)

\* expat's dispatch of one event to its handler
Dispatch(b, ev) ==
    IF ev.type = "start" THEN _startElementHandler(b, ev)
    ELSE IF ev.type = "end" THEN _EndElementHandler(b, ev)
    ELSE _CharacterDataHandler(b, ev.data)

RECURSIVE Feed(_, _)
Feed(b, events) ==
    IF events = <<>> \/ b.raised THEN b
    ELSE Feed(Dispatch(b, Head(events)), Tail(events))

\* parseXML: reset the parse fields, then let expat run the handlers
parseXML(events) == Feed(NewBuilder, events)

\* ------------------------------------------------------- recursiveDelete
\* recursiveDelete's assignments without line 467
Severed_keepsParent(node) ==
    [node EXCEPT
       !.children = <<>>, !.nodeManager = FALSE, !.previousTextNode = None,
       !.text = <<>>,
       !.attrs = @ \cup {"format", "control", "text"}]

\* lines 464-473: the assignments recursiveDelete makes on the node
Severed(node) ==
    [node EXCEPT
       !.children = <<>>, !.nodeManager = FALSE, !.previousTextNode = None,
       !.parent = None, !.text = <<>>,
       !.attrs = @ \cup {"format", "control", "text"}]

RECURSIVE recursiveDelete(_, _), DeleteEach(_, _)
DeleteEach(ns, children) ==
    IF children = <<>> THEN ns
    ELSE DeleteEach(recursiveDelete(ns, Head(children)), Tail(children))

recursiveDelete(ns, n) ==
    [DeleteEach(ns, ns[n].children) EXCEPT ![n] = Severed(@)]

\* ---------------------------------------------------- NodeField.searchOffset
RECURSIVE searchOffset(_, _, _), SearchOffsetEach(_, _, _)
SearchOffsetEach(ns, children, offset) ==
    IF children = <<>> THEN None
    ELSE LET node == searchOffset(ns, Head(children), offset) IN
         IF Truthy(ns, node) THEN node
         ELSE SearchOffsetEach(ns, Tail(children), offset)

searchOffset(ns, n, offset) ==
    IF HasAttr(ns, n, "text")
    THEN IF offset >= ns[n].offset /\ offset < ns[n].offset + ns[n].size
         THEN n ELSE None
    ELSE SearchOffsetEach(ns, ns[n].children, offset)

\* ------------------------------------------------------- string helpers
\* needle in hay (Python substring test)
Contains(hay, needle) ==
    \E i \in 0 .. (Len(hay) - Len(needle)) :
        SubSeq(hay, i + 1, i + Len(needle)) = needle

\* item.replace("*", "")
StripStars(item) == SelectSeq(item, LAMBDA c : c # STAR)

\* s.split(" ")
RECURSIVE Split(_)
Split(s) ==
    IF \A i \in 1 .. Len(s) : s[i] # SPACE THEN << s >>
    ELSE LET i == CHOOSE k \in 1 .. Len(s) :
                     s[k] = SPACE /\ \A j \in 1 .. (k - 1) : s[j] # SPACE
         IN << SubSeq(s, 1, i - 1) >> \o Split(SubSeq(s, i + 1, Len(s)))

\* __eq__ as object identity
NodeEq_identity(ns, a, b) == a = b

\* x in exclude, decided by NodeField.__eq__ (offset equality)
NodeEq(ns, a, b) == b # None /\ ns[a].offset = ns[b].offset

InList(ns, list, n) == \E i \in 1 .. Len(list) : NodeEq(ns, n, list[i])

\* `exclude and child in exclude`
Excluded(ns, exclude, n) == exclude # <<>> /\ InList(ns, exclude, n)

\* ---------------------------------------------------- NodeField.searchString
\* text is the list of candidate substrings.
RECURSIVE searchString(_, _, _, _, _, _), SearchStringEach(_, _, _, _, _, _, _)
SearchStringEach(ns, children, text, exclude, maxIndex, currentIndex, result) ==
    IF children = <<>> THEN result
    ELSE LET child == Head(children) IN
         IF Excluded(ns, exclude, child)
         THEN SearchStringEach(ns, Tail(children), text, exclude, maxIndex,
                               currentIndex, result)
         ELSE LET childResult == searchString(ns, child, text, exclude, maxIndex,
                                              currentIndex)
                  index == IF maxIndex # 0 THEN currentIndex + Len(childResult)
                           ELSE currentIndex
              IN IF maxIndex # 0 /\ index >= maxIndex
                 THEN result \o childResult
                 ELSE SearchStringEach(ns, Tail(children), text, exclude, maxIndex,
                                       index, result \o childResult)

searchString(ns, n, text, exclude, maxIndex, currentIndex) ==
    IF HasAttr(ns, n, "text")
    THEN IF \E i \in 1 .. Len(text) : Contains(ns[n].text, text[i])
         THEN << n >> ELSE <<>>
    ELSE SearchStringEach(ns, ns[n].children, text, exclude, maxIndex,
                          currentIndex, <<>>)

\* ------------------------------------------------------ search_eq / search_in
\* search_in answering False whatever the value
search_in_never(itemList, value) == FALSE

search_eq(itemList, value) ==
    \E i \in 1 .. Len(itemList) : itemList[i] = value

search_in(itemList, value) ==
    IF value = <<>> THEN FALSE
    ELSE \E i \in 1 .. Len(itemList) : Contains(value, StripStars(itemList[i]))

\* ------------------------------------------------------ NodeField.searchNode
\* kwargs is the sequence of criteria in the dict's iteration order; a
\* criterion is [test, prop, index, values] for the key test_prop[#index]
\* (test = "" for a key without "_").  A search returns [r, raised]: the node
\* list, or raised = TRUE when an exception left the call.
Criterion(test, prop, index, values) ==
    [test |-> test, prop |-> prop, index |-> index, values |-> values]

Returned(r) == [r |-> r, raised |-> FALSE]

Raised == [r |-> <<>>, raised |-> TRUE]

\* getattr(self, prop, None) for the properties the model carries
GetAttr(node, prop) ==
    IF prop = "role" THEN node.role ELSE node.className

CandidateValues(node, prop) ==
    IF prop = "className" THEN Split(node.className)
    ELSE << GetAttr(node, prop) >>

\* The loop over candidateValues (lines 563-579) for the criterion at
\* position k.  st = [found, live, out]: live is the set of positions still
\* in kwargs, out is "go", "empty" (return []) or "raise" (KeyError of del).
RECURSIVE MatchValues(_, _, _, _)
MatchValues(st, c, k, values) ==
    IF values = <<>> \/ st.out # "go" THEN st
    ELSE LET v == Head(values)
             hit == IF c.test \in {"eq", "notEq"} THEN search_eq(c.values, v)
                    ELSE search_in(c.values, v)
             st1 == IF c.test \in {"eq", "in"}
                    THEN IF hit
                         THEN IF k \in st.live
                              THEN [st EXCEPT !.live = @ \ {k}]
                              ELSE [st EXCEPT !.out = "raise"]
                         ELSE [st EXCEPT !.found = FALSE]
                    ELSE IF c.test \in {"notEq", "notIn"} /\ hit
                         THEN [st EXCEPT !.out = "empty"]
                         ELSE st
         IN MatchValues(st1, c, k, Tail(values))

\* The loop over kwargs.copy().items() (lines 550-579)
RECURSIVE MatchCriteria(_, _, _, _)
MatchCriteria(st, node, kwargs, k) ==
    IF k > Len(kwargs) \/ st.out # "go" THEN st
    ELSE LET c == kwargs[k] IN
         IF c.test = "" \/ c.prop \in {"text", "prevText"}
            \/ c.test \notin {"eq", "in", "notEq", "notIn"}
         THEN MatchCriteria(st, node, kwargs, k + 1)
         ELSE MatchCriteria(MatchValues(st, c, k, CandidateValues(node, c.prop)),
                            node, kwargs, k + 1)

\* kwargs.get() that never finds the key
KwGet_absent(kwargs, prop) == <<>>

\* kwargs.get("in_text", []) and kwargs.get("in_prevText", "")
KwGet(kwargs, prop) ==
    IF \E k \in 1 .. Len(kwargs) :
           kwargs[k].test = "in" /\ kwargs[k].prop = prop /\ kwargs[k].index = 0
    THEN LET k == CHOOSE j \in 1 .. Len(kwargs) :
                      kwargs[j].test = "in" /\ kwargs[j].prop = prop
                      /\ kwargs[j].index = 0
         IN kwargs[k].values
    ELSE <<>>

\* kwargs after the del statements: the criteria still live, in order
Remaining(kwargs, live) ==
    LET keep == { k \in 1 .. Len(kwargs) : k \in live }
        F[i \in 0 .. Len(kwargs)] ==
            IF i = 0 THEN <<>>
            ELSE IF i \in keep THEN Append(F[i - 1], kwargs[i]) ELSE F[i - 1]
    IN F[Len(kwargs)]

RECURSIVE searchNode(_, _, _, _, _, _), SearchNodeEach(_, _, _, _, _, _, _)
SearchNodeEach(ns, children, exclude, maxIndex, currentIndex, kwargs, nodeList) ==
    IF children = <<>> THEN Returned(nodeList)
    ELSE LET child == Head(children) IN
         IF Excluded(ns, exclude, child)
         THEN SearchNodeEach(ns, Tail(children), exclude, maxIndex, currentIndex,
                             kwargs, nodeList)
         ELSE LET childResult == searchNode(ns, child, exclude, maxIndex,
                                            currentIndex, kwargs)
                  index == IF maxIndex # 0 THEN currentIndex + Len(childResult.r)
                           ELSE currentIndex
              IN IF childResult.raised THEN Raised
                 ELSE IF maxIndex # 0 /\ index >= maxIndex
                 THEN Returned(nodeList \o childResult.r)
                 ELSE SearchNodeEach(ns, Tail(children), exclude, maxIndex, index,
                                     kwargs, nodeList \o childResult.r)

searchNode(ns, n, exclude, maxIndex, currentIndex, kwargs) ==
    IF ~HasAttr(ns, n, "control") THEN Returned(<<>>)
    ELSE LET st == MatchCriteria(
                       [found |-> TRUE, live |-> 1 .. Len(kwargs), out |-> "go"],
                       ns[n], kwargs, 1)
             text == KwGet(kwargs, "text")
             prevText == KwGet(kwargs, "prevText")
             prev == ns[n].previousTextNode
         IN IF st.out = "raise" THEN Raised
            ELSE IF st.out = "empty" THEN Returned(<<>>)
            ELSE IF st.found
            THEN IF text # <<>>
                 THEN Returned(searchString(ns, n, text, exclude, maxIndex,
                                            currentIndex))
                 ELSE IF prevText # <<>>
                 THEN IF prev # None /\ Contains(ns[prev].text, prevText)
                      THEN Returned(<< n >>) ELSE Returned(<<>>)
                 ELSE Returned(<< n >>)
            ELSE SearchNodeEach(ns, ns[n].children, exclude, maxIndex,
                                currentIndex, Remaining(kwargs, st.live), <<>>)

\* ------------------------------------------------------------------ state
VARIABLES
    \* the content source (treeInterceptor object and its virtual buffer)
    tiReady,              \* treeInterceptor.isReady
    srcSize,              \* extent: makeTextInfo(POSITION_LAST)._endOffset + 1
    \* NodeManager fields
    treeInterceptor,      \* "None" or "treeInterceptor"
    callbackNodeMoveto,   \* "None" or "callback"
    _ready,
    identifier,
    backendDict,
    treeInterceptorSize,
    mainNode,
    nodes,                \* the NodeField objects of mainNode's tree
    updating,
    _curNode,
    caretNode,
    \* objects of trees that went through recursiveDelete
    deleted,
    \* the call in progress or last made
    pc,                   \* "idle", or the place update() has reached
    size,                 \* update()'s local `size`
    caret,                \* the caret offset of the source while update() captures
                          \* the caret node: makeTextInfo(POSITION_CARET)._startOffset
    result,               \* what the last update() returned ("raised": an exception)
    ret,                  \* which exit the last update() took
    sent,                 \* scheduler.send() event names of the last update()
    notified,             \* event_nodeManagerTerminated calls of the last terminate()
    \* history variables (read by no action)
    verified,             \* mainNode's tree is of a build whose two probes agreed
    readyExtent,          \* pre-build extent of the last update() that ended Ready
    sawUnavailable,       \* _ready is set and, since it was set, a check has
                          \* seen the source missing or unreadable
    \* one parse followed event by event, and the searches made on its tree
    XMLText,              \* the events expat has still to deliver
    builder,              \* the parse fields while the handlers run
    received,             \* per node made: how many characters it was handed
    call                  \* the last search called and what it returned

source == << tiReady, srcSize >>

manager == << treeInterceptor, callbackNodeMoveto, _ready, identifier, backendDict,
              treeInterceptorSize, mainNode, nodes, updating, _curNode, caretNode,
              deleted >>

frame == << pc, size, caret, result, ret, sent, notified >>

history == << verified, readyExtent, sawUnavailable >>

trial == << XMLText, builder, received, call >>

vars == << source, manager, frame, history, trial >>

Backends == 1 .. MaxBackends

NoNotified == [b \in Backends |-> 0]

\* ----------------------------------------------------------------- isReady
\* NodeManager._get_isReady
isReady ==
    ~ (~_ready \/ treeInterceptor = "None" \/ ~tiReady)

\* The evaluation gets as far as reading the source and finds it unusable.
SeesUnavailable == _ready /\ (treeInterceptor = "None" \/ ~tiReady)

\* no search called yet
NoCall ==
    [op |-> "none", roots |-> <<>>, exclude |-> <<>>, maxIndex |-> 0,
     kwargs |-> <<>>, text |-> <<>>, offset |-> 0, r |-> <<>>, raised |-> FALSE]

\* ------------------------------------------------------------------- Init
\* NodeManager.__init__ up to line 71; with a treeInterceptor the constructor
\* goes on to call update() (pc = "update").
Init ==
    /\ tiReady \in BOOLEAN
    /\ srcSize \in 1 .. MaxExtent
    /\ treeInterceptor \in {"None", "treeInterceptor"}
    /\ callbackNodeMoveto =
          IF treeInterceptor = "None" THEN "None" ELSE "callback"
    /\ _ready = FALSE
    /\ identifier = None
    /\ backendDict = {}
    /\ treeInterceptorSize = 0
    /\ mainNode = None
    /\ nodes = <<>>
    /\ updating = FALSE
    /\ _curNode = None
    /\ caretNode = None
    /\ deleted = <<>>
    /\ pc = IF treeInterceptor = "None" THEN "idle" ELSE "update"
    /\ size = 0
    /\ caret = 0
    /\ result = "none"
    /\ ret = "none"
    /\ sent = <<>>
    /\ notified = NoNotified
    /\ verified = FALSE
    /\ readyExtent = 0
    /\ sawUnavailable = FALSE
    /\ XMLText = <<>>
    /\ builder = NewBuilder
    /\ received = <<>>
    /\ call = NoCall

\* ------------------------------------------------------------- the source
\* treeInterceptor.isReady flips (the buffer starts or ends loading).
source_ready ==
    /\ tiReady' = ~tiReady
    /\ UNCHANGED << srcSize, manager, frame, history >>
    /\ UNCHANGED trial

\* The document is mutated and its extent changes, at any time, also while
\* update() runs.  (What a snapshot captures and where the caret is are read
\* once per update() and are inputs of the steps that read them.)
source_mutate ==
    /\ \E s \in (1 .. MaxExtent) \ {srcSize} : srcSize' = s
    /\ UNCHANGED << tiReady, manager, frame, history >>
    /\ UNCHANGED trial

\* --------------------------------------------------- discarding a tree
\* mainNode.recursiveDelete() moves the objects of the tree to `deleted`.
\* Of the objects deleted earlier, those _curNode or caretNode still refer to
\* stay (first), the others are garbage.
Held(refs) ==
    LET first == IF refs[1] < 0 THEN << refs[1] >> ELSE <<>>
    IN IF refs[2] < 0 /\ refs[2] # refs[1] THEN Append(first, refs[2]) ELSE first

DeletedAfter(refs) ==
    IF mainNode = None THEN deleted
    ELSE [i \in 1 .. Len(Held(refs)) |-> deleted[-Held(refs)[i]]]
         \o recursiveDelete(nodes, mainNode)

\* where reference r leads once the tree is in `deleted`
Rebased(r, refs) ==
    IF mainNode = None \/ r = None THEN r
    ELSE IF r > 0 THEN - (Len(Held(refs)) + r)
    ELSE - (CHOOSE i \in 1 .. Len(Held(refs)) : Held(refs)[i] = r)

\* ---------------------------------------------------------------- update()
\* update() returns `value` by exit `exit`; its local `size` is gone.
Return(value, exit) ==
    /\ pc' = "idle"
    /\ result' = value
    /\ ret' = exit
    /\ size' = 0
    /\ caret' = 0

Readable == treeInterceptor # "None" /\ tiReady

\* line 196 compared against the extent without the "+ 1" of line 192
SameExtent_offByOne(probed, recorded) == probed - 1 = recorded

\* line 196
SameExtent(probed, recorded) == probed = recorded

\* line 239 noticing only a source that grew
ExtentDiffers_grew(probed, recorded) == probed > recorded

\* line 239
ExtentDiffers(probed, recorded) == probed # recorded

\* update() is invoked (after construction: by the scheduler or a caller).
update_call ==
    /\ pc = "idle"
    /\ identifier < MaxTime
    /\ pc' = "update"
    /\ result' = "none"
    /\ sent' = <<>>
    /\ UNCHANGED << source, size, caret, ret, history, treeInterceptor,
                    callbackNodeMoveto, _ready, identifier, backendDict,
                    treeInterceptorSize, mainNode, nodes, updating, _curNode,
                    caretNode, deleted, notified >>
    /\ UNCHANGED trial

\* lines 183-185 without line 184
update_unavailable_keepsReady ==
    /\ pc = "update"
    /\ ~Readable
    /\ Return("False", "unavailable")
    /\ sawUnavailable' = (_ready /\ sawUnavailable)
    /\ UNCHANGED << source, treeInterceptor, callbackNodeMoveto, _ready,
                    identifier, backendDict, treeInterceptorSize, mainNode,
                    nodes, updating, _curNode, caretNode, deleted, sent,
                    notified, verified, readyExtent >>
    /\ UNCHANGED trial

\* lines 183-185
update_unavailable ==
    /\ pc = "update"
    /\ ~Readable
    /\ _ready' = FALSE
    /\ Return("False", "unavailable")
    /\ sawUnavailable' = FALSE
    /\ UNCHANGED << source, treeInterceptor, callbackNodeMoveto, identifier,
                    backendDict, treeInterceptorSize, mainNode, nodes, updating,
                    _curNode, caretNode, deleted, sent, notified, verified, readyExtent >>
    /\ UNCHANGED trial

\* lines 186-195: makeTextInfo(POSITION_LAST) raises
update_probeFailed ==
    /\ pc = "update"
    /\ Readable
    /\ _ready' = FALSE
    /\ sawUnavailable' = FALSE
    /\ Return("False", "probeFailed")
    /\ UNCHANGED << source, treeInterceptor, callbackNodeMoveto, identifier,
                    backendDict, treeInterceptorSize, mainNode, nodes,
                    updating, _curNode, caretNode, deleted, sent, notified,
                    verified, readyExtent >>
    /\ UNCHANGED trial

\* lines 186-198: the probed extent is the recorded one
update_noChange ==
    /\ pc = "update"
    /\ Readable
    /\ SameExtent(srcSize, treeInterceptorSize)
    /\ Return("False", "noChange")
    /\ UNCHANGED << source, manager, sent, notified, history >>
    /\ UNCHANGED trial

\* lines 186-201: the extent changed; record it and go on to the snapshot
update_changed ==
    /\ pc = "update"
    /\ Readable
    /\ ~SameExtent(srcSize, treeInterceptorSize)
    /\ size' = srcSize
    /\ treeInterceptorSize' = srcSize
    /\ updating' = TRUE
    /\ pc' = "snapshot"
    /\ UNCHANGED << source, treeInterceptor, callbackNodeMoveto, _ready,
                    identifier, backendDict, mainNode, nodes, _curNode, caretNode,
                    deleted, caret, result, ret, sent, notified, history >>
    /\ UNCHANGED trial

\* line 202: makeTextInfo(POSITION_ALL) raises; nothing catches it
update_snapshotRaised ==
    /\ pc = "snapshot"
    /\ Return("raised", "snapshotRaised")
    /\ UNCHANGED << source, manager, sent, notified, history >>
    /\ UNCHANGED trial

\* lines 202-208: the range is empty
update_empty ==
    /\ pc = "snapshot"
    /\ _ready' = FALSE
    /\ sawUnavailable' = FALSE
    /\ Return("False", "empty")
    /\ UNCHANGED << source, treeInterceptor, callbackNodeMoveto, identifier,
                    backendDict, treeInterceptorSize, mainNode, nodes,
                    updating, _curNode, caretNode, deleted, sent, notified,
                    verified, readyExtent >>
    /\ UNCHANGED trial

\* lines 209-213 with a handler raising inside parser.Parse: the previous tree
\* is torn down, the nodes made so far stay, the exception leaves update()
update_parseRaised ==
    /\ pc = "snapshot"
    /\ \E d \in DocIds :
       LET b == parseXML(Docs[d])
           refs == << _curNode, caretNode >>
       IN /\ b.raised
          /\ deleted' = DeletedAfter(refs)
          /\ _curNode' = Rebased(_curNode, refs)
          /\ caretNode' = Rebased(caretNode, refs)
          /\ nodes' = b.nodes
          /\ mainNode' = b.mainNode
    /\ Return("raised", "parseRaised")
    /\ verified' = FALSE
    /\ UNCHANGED << source, treeInterceptor, callbackNodeMoveto, _ready,
                    identifier, backendDict, treeInterceptorSize, updating,
                    sent, notified, readyExtent,
                    sawUnavailable >>
    /\ UNCHANGED trial

\* lines 209-226: the parse made no node
update_noTree ==
    /\ pc = "snapshot"
    /\ \E d \in DocIds :
       LET b == parseXML(Docs[d])
           refs == << _curNode, caretNode >>
       IN /\ ~b.raised
          /\ b.mainNode = None
          /\ deleted' = DeletedAfter(refs)
          /\ _curNode' = Rebased(_curNode, refs)
          /\ caretNode' = Rebased(caretNode, refs)
          /\ nodes' = b.nodes
          /\ mainNode' = b.mainNode
    /\ updating' = FALSE
    /\ _ready' = FALSE
    /\ sawUnavailable' = FALSE
    /\ Return("False", "noTree")
    /\ verified' = FALSE
    /\ UNCHANGED << source, treeInterceptor, callbackNodeMoveto, identifier,
                    backendDict, treeInterceptorSize, sent, notified,
                    readyExtent >>
    /\ UNCHANGED trial

\* lines 209-223: the parse made a tree
update_built ==
    /\ pc = "snapshot"
    /\ \E d \in DocIds :
       LET b == parseXML(Docs[d])
           refs == << _curNode, caretNode >>
       IN /\ ~b.raised
          /\ b.mainNode # None
          /\ deleted' = DeletedAfter(refs)
          /\ _curNode' = Rebased(_curNode, refs)
          /\ caretNode' = Rebased(caretNode, refs)
          /\ nodes' = b.nodes
          /\ mainNode' = b.mainNode
    /\ pc' = "caret"
    /\ verified' = FALSE
    /\ UNCHANGED << source, treeInterceptor, callbackNodeMoveto, _ready,
                    identifier, backendDict, treeInterceptorSize, updating,
                    size, caret, result, ret, sent, notified, readyExtent,
                    sawUnavailable >>
    /\ UNCHANGED trial

\* NodeManager.searchOffset (lines 287-291); devNode stays None (line 65)
NodeManager_searchOffset(offset) ==
    IF ~isReady THEN Returned(<<>>)
    ELSE IF mainNode = None THEN Raised
    ELSE LET node == searchOffset(nodes, mainNode, offset) IN
         Returned(IF node = None THEN <<>> ELSE << node >>)

\* NodeManager.getCaretNode (lines 293-306); probeOk: makeTextInfo returns
getCaretNode(probeOk, offset) ==
    IF ~isReady THEN None
    ELSE IF ~probeOk THEN None
    ELSE LET found == NodeManager_searchOffset(offset) IN
         IF found.raised \/ found.r = <<>> THEN None ELSE found.r[1]

\* lines 227-231
update_caret ==
    /\ pc = "caret"
    /\ identifier' = identifier + 1
    /\ updating' = FALSE
    /\ \E probeOk \in BOOLEAN, offset \in 0 .. MaxCaret :
          /\ caret' = offset
          /\ _curNode' = getCaretNode(probeOk, offset)
          /\ caretNode' = getCaretNode(probeOk, offset)
    /\ sawUnavailable' = (sawUnavailable \/ SeesUnavailable)
    /\ pc' = "postProbe"
    /\ UNCHANGED << source, treeInterceptor, callbackNodeMoveto, _ready,
                    backendDict, treeInterceptorSize, mainNode, nodes, deleted,
                    size, result, ret, sent, notified, verified,
                    readyExtent >>
    /\ UNCHANGED trial

\* lines 232-236 asking the scheduler for a retry before returning
update_postProbeFailed_retries ==
    /\ pc = "postProbe"
    /\ _ready' = FALSE
    /\ sawUnavailable' = FALSE
    /\ sent' = Append(sent, "updateNodeManager")
    /\ Return("False", "postProbeFailed")
    /\ UNCHANGED << source, treeInterceptor, callbackNodeMoveto, identifier,
                    backendDict, treeInterceptorSize, mainNode, nodes,
                    updating, _curNode, caretNode, deleted, notified,
                    verified, readyExtent >>
    /\ UNCHANGED trial

\* lines 232-236: makeTextInfo(POSITION_LAST) raises
update_postProbeFailed ==
    /\ pc = "postProbe"
    /\ _ready' = FALSE
    /\ sawUnavailable' = FALSE
    /\ Return("False", "postProbeFailed")
    /\ UNCHANGED << source, treeInterceptor, callbackNodeMoveto, identifier,
                    backendDict, treeInterceptorSize, mainNode, nodes,
                    updating, _curNode, caretNode, deleted, sent, notified,
                    verified, readyExtent >>
    /\ UNCHANGED trial

\* lines 237-246 with the new tree torn down and dropped before returning
update_stale_discards ==
    /\ pc = "postProbe"
    /\ ExtentDiffers(srcSize, treeInterceptorSize)
    /\ _ready' = FALSE
    /\ sawUnavailable' = FALSE
    /\ sent' = Append(sent, "updateNodeManager")
    /\ LET refs == << _curNode, caretNode >> IN
       /\ deleted' = DeletedAfter(refs)
       /\ _curNode' = Rebased(_curNode, refs)
       /\ caretNode' = Rebased(caretNode, refs)
    /\ mainNode' = None
    /\ nodes' = <<>>
    /\ Return("False", "stale")
    /\ UNCHANGED << source, treeInterceptor, callbackNodeMoveto, identifier,
                    backendDict, treeInterceptorSize, updating, notified,
                    verified, readyExtent >>
    /\ UNCHANGED trial

\* lines 237-246: the extent is no longer the one recorded before the snapshot
update_stale ==
    /\ pc = "postProbe"
    /\ ExtentDiffers(srcSize, treeInterceptorSize)
    /\ _ready' = FALSE
    /\ sawUnavailable' = FALSE
    /\ sent' = Append(sent, "updateNodeManager")
    /\ Return("False", "stale")
    /\ UNCHANGED << source, treeInterceptor, callbackNodeMoveto, identifier,
                    backendDict, treeInterceptorSize, mainNode, nodes,
                    updating, _curNode, caretNode, deleted, notified, verified,
                    readyExtent >>
    /\ UNCHANGED trial

\* lines 237-253: the two probes agree
update_ready ==
    /\ pc = "postProbe"
    /\ ~ExtentDiffers(srcSize, treeInterceptorSize)
    /\ _ready' = TRUE
    /\ sent' = Append(sent, "nodeManagerUpdated")
    /\ Return("True", "ready")
    /\ verified' = TRUE
    /\ readyExtent' = treeInterceptorSize
    /\ sawUnavailable' = FALSE
    /\ UNCHANGED << source, treeInterceptor, callbackNodeMoveto, identifier,
                    backendDict, treeInterceptorSize, mainNode, nodes, updating,
                    _curNode, caretNode, deleted, notified >>
    /\ UNCHANGED trial

\* -------------------------------------------------------------- terminate()
\* the loop of lines 75-76: one event_nodeManagerTerminated per key
RECURSIVE NotifyEach(_, _)
NotifyEach(backends, calls) ==
    IF backends = {} THEN calls
    ELSE LET backend == CHOOSE b \in backends : TRUE IN
         NotifyEach(backends \ {backend}, [calls EXCEPT ![backend] = @ + 1])

\* terminate() without lines 80-82
terminate_keepsTree ==
    /\ pc = "idle"
    /\ notified' = NotifyEach(backendDict, NoNotified)
    /\ _ready' = FALSE
    /\ treeInterceptor' = "None"
    /\ treeInterceptorSize' = 0
    /\ LET refs == << _curNode, caretNode >> IN
       deleted' = [i \in 1 .. Len(Held(refs)) |-> deleted[-Held(refs)[i]]]
    /\ callbackNodeMoveto' = "None"
    /\ updating' = FALSE
    /\ _curNode' = None
    /\ caretNode' = None
    /\ sawUnavailable' = FALSE
    /\ verified' = FALSE
    /\ UNCHANGED << source, identifier, backendDict, pc, size, caret, ret,
                    readyExtent, result, sent, mainNode, nodes >>
    /\ UNCHANGED trial

\* terminate (lines 74-86)
terminate ==
    /\ pc = "idle"
    /\ notified' = NotifyEach(backendDict, NoNotified)
    /\ _ready' = FALSE
    /\ treeInterceptor' = "None"
    /\ treeInterceptorSize' = 0
    /\ deleted' = DeletedAfter(<< None, None >>)
    /\ mainNode' = None
    /\ nodes' = <<>>
    /\ callbackNodeMoveto' = "None"
    /\ updating' = FALSE
    /\ _curNode' = None
    /\ caretNode' = None
    /\ sawUnavailable' = FALSE
    /\ verified' = FALSE
    /\ UNCHANGED << source, identifier, backendDict, pc, size, caret, ret,
                    readyExtent, result, sent >>
    /\ UNCHANGED trial

\* addBackend (lines 265-266)
addBackend ==
    /\ pc = "idle"
    /\ \E obj \in Backends : backendDict' = backendDict \cup {obj}
    /\ UNCHANGED << source, treeInterceptor, callbackNodeMoveto, _ready,
                    identifier, treeInterceptorSize, mainNode, nodes, updating,
                    _curNode, caretNode, deleted, pc, size, caret, ret, history,
                    result, sent, notified >>
    /\ UNCHANGED trial

\* ------------------------------------------------------- manager searches
\* NodeManager.searchString (lines 268-271)
NodeManager_searchString(text) ==
    IF ~isReady THEN Returned(<<>>)
    ELSE IF mainNode = None THEN Raised
    ELSE Returned(searchString(nodes, mainNode, << text >>, <<>>, 0, 0))

\* NodeManager.searchNode (lines 273-285); roots = <<>> stands for roots=None
RECURSIVE SearchRoots(_, _, _, _, _)
SearchRoots(roots, exclude, maxIndex, kwargs, r) ==
    IF roots = <<>> THEN Returned(r)
    ELSE LET node == Head(roots) IN
         IF node = None THEN Raised
         ELSE IF Excluded(nodes, exclude, node)
         THEN SearchRoots(Tail(roots), exclude, maxIndex, kwargs, r)
         ELSE LET found == searchNode(nodes, node, exclude, maxIndex, 0, kwargs) IN
              IF found.raised THEN Raised
              ELSE SearchRoots(Tail(roots), exclude, maxIndex, kwargs, r \o found.r)

NodeManager_searchNode(roots, exclude, maxIndex, kwargs) ==
    IF ~isReady THEN Returned(<<>>)
    ELSE SearchRoots(IF roots # <<>> THEN roots ELSE << mainNode >>,
                     exclude, maxIndex, kwargs, <<>>)

\* A caller reads the isReady property (_get_isReady, lines 256-263), as
\* every search and script does first; the property changes no field.
get_isReady ==
    /\ pc = "idle"
    /\ sawUnavailable' = (sawUnavailable \/ SeesUnavailable)
    /\ UNCHANGED << source, manager, verified, readyExtent, frame >>
    /\ UNCHANGED trial

\* ------------------------------------------ one parse, event by event
\* The first update() of a manager has reached line 213 (the source readable,
\* extent 1 recorded, no previous tree) and parseXML has reset its fields;
\* expat is about to deliver the events of the snapshot.
InitTree ==
    /\ XMLText \in TreeDocs
    /\ builder = NewBuilder
    /\ received = <<>>
    /\ call = NoCall
    /\ tiReady = TRUE
    /\ srcSize = 1
    /\ treeInterceptor = "treeInterceptor"
    /\ callbackNodeMoveto = "callback"
    /\ _ready = FALSE
    /\ identifier = None
    /\ backendDict = {}
    /\ treeInterceptorSize = 1
    /\ mainNode = None
    /\ nodes = <<>>
    /\ updating = TRUE
    /\ _curNode = None
    /\ caretNode = None
    /\ deleted = <<>>
    /\ pc = "parse"
    /\ size = 1
    /\ caret = 0
    /\ result = "none"
    /\ ret = "none"
    /\ sent = <<>>
    /\ notified = NoNotified
    /\ verified = FALSE
    /\ readyExtent = 0
    /\ sawUnavailable = FALSE

\* the characters the event hands to the current parent (lines 97-105, 141)
Delivered(ev) ==
    IF ev.type = "data" THEN Len(ev.data)
    ELSE IF ev.type = "start" /\ ev.tag = "unich" /\ ev.value # NoValue THEN 1
    ELSE 0

\* expat calls the handler of the next event (parser.Parse, line 160)
Parse ==
    /\ pc = "parse"
    /\ XMLText # <<>>
    /\ ~builder.raised
    /\ LET ev == Head(XMLText)
           p == builder.currentParentNode
           b == Dispatch(builder, ev)
       IN /\ builder' = b
          /\ nodes' = b.nodes
          /\ mainNode' = b.mainNode
          /\ received' =
                [n \in 1 .. Len(b.nodes) |->
                    (IF n <= Len(received) THEN received[n] ELSE 0)
                    + (IF n = p /\ ~b.raised THEN Delivered(ev) ELSE 0)]
    /\ XMLText' = Tail(XMLText)
    /\ UNCHANGED << source, treeInterceptor, callbackNodeMoveto, _ready,
                    identifier, backendDict, treeInterceptorSize, updating,
                    _curNode, caretNode, deleted, frame, history, call >>

\* lines 214-253 when nothing interferes: the parse is over and made a tree,
\* the caret node is asked for (None: the manager is not ready yet), the
\* second probe gives the recorded extent
update_afterParse ==
    /\ pc = "parse"
    /\ XMLText = <<>>
    /\ ~builder.raised
    /\ mainNode # None
    /\ identifier' = 1
    /\ updating' = FALSE
    /\ _curNode' = getCaretNode(TRUE, caret)
    /\ caretNode' = getCaretNode(TRUE, caret)
    /\ ~ExtentDiffers(srcSize, treeInterceptorSize)
    /\ _ready' = TRUE
    /\ sent' = Append(sent, "nodeManagerUpdated")
    /\ verified' = TRUE
    /\ readyExtent' = treeInterceptorSize
    /\ Return("True", "ready")
    /\ UNCHANGED << source, treeInterceptor, callbackNodeMoveto, backendDict,
                    treeInterceptorSize, mainNode, nodes, deleted, notified,
                    sawUnavailable, XMLText, builder, received, call >>

\* The searches callers make on the tree.  A search changes no field, so
\* one search per tree is followed.
KwRoleText ==
    << Criterion("eq", "role", 0, << "link" >>),
       Criterion("in", "text", 0, << << 98 >> >>) >>

KwClassRole ==
    << Criterion("eq", "className", 0, << << 120 >> >>),
       Criterion("eq", "role", 0, << "link" >>) >>

KwNotInRole ==
    << Criterion("notIn", "className", 0, << << 104 >> >>),
       Criterion("eq", "role", 0, << "link" >>) >>

KwNotEqRole ==
    << Criterion("notEq", "className", 0, << << 104 >> >>),
       Criterion("eq", "role", 0, << "link" >>) >>

KwRole == << Criterion("eq", "role", 0, << "link" >>) >>

TreeKwargs == { KwRoleText, KwClassRole, KwNotInRole, KwNotEqRole, KwRole }

\* roots=None, one node, or two different children of the root
RootLists ==
    LET top == { n \in 2 .. Len(nodes) : nodes[n].parent = mainNode } IN
    { <<>> }
    \cup { << a >> : a \in 2 .. Len(nodes) }
    \cup { p \in top \X top : p[1] < p[2] }

TreeTexts == { << << 98 >> >>, << << 97, 98 >>, << 120 >> >> }

ExcludeLists == { <<>> } \cup { << n >> : n \in 1 .. Len(nodes) }

\* NodeManager.searchNode(roots, maxIndex=..., **criteria)
call_searchNode ==
    /\ pc = "idle"
    /\ call = NoCall
    /\ \E roots \in RootLists, maxIndex \in 0 .. MaxIndex, kwargs \in TreeKwargs :
          LET found == NodeManager_searchNode(roots, <<>>, maxIndex, kwargs) IN
          call' = [op |-> "searchNode", roots |-> roots, exclude |-> <<>>,
                   maxIndex |-> maxIndex, kwargs |-> kwargs, text |-> <<>>,
                   offset |-> 0, r |-> found.r, raised |-> found.raised]
    /\ UNCHANGED << source, manager, frame, history, XMLText, builder, received >>

\* mainNode.searchString(text, exclude, maxIndex)
call_searchString ==
    /\ pc = "idle"
    /\ call = NoCall
    /\ mainNode # None
    /\ \E text \in TreeTexts, exclude \in ExcludeLists, maxIndex \in 0 .. MaxIndex :
          call' = [op |-> "searchString", roots |-> <<>>, exclude |-> exclude,
                   maxIndex |-> maxIndex, kwargs |-> <<>>, text |-> text,
                   offset |-> 0,
                   r |-> searchString(nodes, mainNode, text, exclude, maxIndex, 0),
                   raised |-> FALSE]
    /\ UNCHANGED << source, manager, frame, history, XMLText, builder, received >>

\* NodeManager.searchOffset(offset)
call_searchOffset ==
    /\ pc = "idle"
    /\ call = NoCall
    /\ \E offset \in 0 .. builder.fieldOffset :
          LET found == NodeManager_searchOffset(offset) IN
          call' = [op |-> "searchOffset", roots |-> <<>>, exclude |-> <<>>,
                   maxIndex |-> 0, kwargs |-> <<>>, text |-> <<>>,
                   offset |-> offset, r |-> found.r, raised |-> found.raised]
    /\ UNCHANGED << source, manager, frame, history, XMLText, builder, received >>

NextTree ==
    \/ Parse
    \/ update_afterParse
    \/ call_searchNode
    \/ call_searchString
    \/ call_searchOffset

SpecTree == InitTree /\ [][NextTree]_vars

\* ---------------------------------------------------- the navigation scripts
\* Snapshots for the scripts: the trees above, a document whose root is a
\* text element, and a link followed by a link whose first text element
\* receives two character-data events:
\* <control role=section><control role=link><text>a</text></control>
\* <control role=link><text>a<unich value="98"/></text><text>ab</text>
\* </control></control>
NavDocs ==
    TreeDocs
    \cup { TextElement(<< 97, 98 >>),
           ControlElement("section", <<>>,
               Blocks[2]
               \o ControlElement("link", <<>>,
                      Blocks[5] \o TextElement(<< 97, 98 >>))) }

\* the first update() of a manager at line 213, as in InitTree, on a
\* snapshot of NavDocs
InitNav ==
    /\ XMLText \in NavDocs
    /\ builder = NewBuilder
    /\ received = <<>>
    /\ call = NoCall
    /\ tiReady = TRUE
    /\ srcSize = 1
    /\ treeInterceptor = "treeInterceptor"
    /\ callbackNodeMoveto = "callback"
    /\ _ready = FALSE
    /\ identifier = None
    /\ backendDict = {}
    /\ treeInterceptorSize = 1
    /\ mainNode = None
    /\ nodes = <<>>
    /\ updating = TRUE
    /\ _curNode = None
    /\ caretNode = None
    /\ deleted = <<>>
    /\ pc = "parse"
    /\ size = 1
    /\ caret = 0
    /\ result = "none"
    /\ ret = "none"
    /\ sent = <<>>
    /\ notified = NoNotified
    /\ verified = FALSE
    /\ readyExtent = 0
    /\ sawUnavailable = FALSE

\* controlTypes.ROLE_SECTION, controlTypes.ROLE_PARAGRAPH (lines 338-340)
StopRoles == {"section", "paragraph"}

\* the object a reference leads to
NodeOf(ref) == IF ref > 0 THEN nodes[ref] ELSE deleted[-ref]

\* What a script did: the value it leaves in _curNode, the ui.message it
\* spoke ("" for none), and how it ended: "notReady" (line 329),
\* "passThrough" (gesture.send()), "boundary", "moved", or "raised" (an
\* exception left the script).
Outcome(curNode, message, end) ==
    [curNode |-> curNode, message |-> message, end |-> end]

\* lines 338-344 and 358-364: the landing node for the located node c
Land(c) ==
    IF nodes[c].parent = None
    THEN Outcome(_curNode, "", "raised")
    ELSE IF nodes[nodes[c].parent].role \notin StopRoles
    THEN Outcome(nodes[c].parent, "", "moved")
    ELSE Outcome(c, "", "moved")

\* NodeManager.script_nextItem (lines 327-344)
nextItem(passThrough) ==
    IF ~isReady THEN Outcome(_curNode, "", "notReady")
    ELSE IF passThrough THEN Outcome(_curNode, "", "passThrough")
    ELSE IF _curNode = None THEN Outcome(_curNode, "", "raised")
    ELSE LET cur == NodeOf(_curNode)
             found == NodeManager_searchOffset(cur.offset + cur.size + 0)
         IN IF found.raised THEN Outcome(_curNode, "", "raised")
            ELSE IF found.r = <<>> \/ nodes[found.r[1]].offset = cur.offset
            THEN Outcome(_curNode, "Bas du document", "boundary")
            ELSE Land(found.r[1])

\* NodeManager.script_previousItem (lines 346-364); the message is
\* "Debut du document" with an acute accent on the e
previousItem(passThrough) ==
    IF ~isReady THEN Outcome(_curNode, "", "notReady")
    ELSE IF passThrough THEN Outcome(_curNode, "", "passThrough")
    ELSE IF _curNode = None THEN Outcome(_curNode, "", "raised")
    ELSE LET cur == NodeOf(_curNode)
             found == NodeManager_searchOffset(cur.offset - 1)
         IN IF found.raised THEN Outcome(_curNode, "", "raised")
            ELSE IF found.r = <<>>
            THEN Outcome(_curNode, "Debut du document", "boundary")
            ELSE Land(found.r[1])

\* the record of a script or getCurrentNode call: `from` is _curNode before
Scripted(op, passThrough, outcome) ==
    [op |-> op, passThrough |-> passThrough, from |-> _curNode,
     ready |-> isReady, message |-> outcome.message, end |-> outcome.end,
     raised |-> outcome.end = "raised"]

script_nextItem ==
    /\ pc = "idle"
    /\ \E passThrough \in BOOLEAN :
          LET outcome == nextItem(passThrough) IN
          /\ _curNode' = outcome.curNode
          /\ call' = Scripted("script_nextItem", passThrough, outcome)
    /\ UNCHANGED << source, treeInterceptor, callbackNodeMoveto, _ready,
                    identifier, backendDict, treeInterceptorSize, mainNode,
                    nodes, updating, caretNode, deleted, frame, history,
                    XMLText, builder, received >>

script_previousItem ==
    /\ pc = "idle"
    /\ \E passThrough \in BOOLEAN :
          LET outcome == previousItem(passThrough) IN
          /\ _curNode' = outcome.curNode
          /\ call' = Scripted("script_previousItem", passThrough, outcome)
    /\ UNCHANGED << source, treeInterceptor, callbackNodeMoveto, _ready,
                    identifier, backendDict, treeInterceptorSize, mainNode,
                    nodes, updating, caretNode, deleted, frame, history,
                    XMLText, builder, received >>

\* NodeManager.getCurrentNode (lines 308-313), the caret at `offset`
call_getCurrentNode ==
    /\ pc = "idle"
    /\ \E probeOk \in BOOLEAN, offset \in 0 .. MaxCaret :
          LET node == IF ~isReady THEN _curNode
                      ELSE IF _curNode = None THEN getCaretNode(probeOk, offset)
                      ELSE _curNode
          IN /\ _curNode' = node
             /\ call' = Scripted("getCurrentNode", FALSE,
                                 Outcome(node, "", "returned"))
    /\ UNCHANGED << source, treeInterceptor, callbackNodeMoveto, _ready,
                    identifier, backendDict, treeInterceptorSize, mainNode,
                    nodes, updating, caretNode, deleted, frame, history,
                    XMLText, builder, received >>

NextNav ==
    \/ Parse
    \/ update_afterParse
    \/ call_getCurrentNode
    \/ script_nextItem
    \/ script_previousItem

SpecNav == InitNav /\ [][NextNav]_vars

\* ------------------------------------------- searches on className tokens
\* the class attributes: strings of a, b and spaces, up to MaxClassLen long
ClassNames ==
    UNION { [1 .. k -> {97, 98, SPACE}] : k \in 1 .. MaxClassLen }

\* <control role=section><control role=link class=...><text>a</text>
\* </control></control>
ClassDocs ==
    { ControlElement("section", <<>>,
          ControlElement("link", className, TextElement(<< 97 >>))) :
      className \in ClassNames }

\* the first update() of a manager at line 213, as in InitTree, on a
\* snapshot of ClassDocs
InitClass ==
    /\ XMLText \in ClassDocs
    /\ builder = NewBuilder
    /\ received = <<>>
    /\ call = NoCall
    /\ tiReady = TRUE
    /\ srcSize = 1
    /\ treeInterceptor = "treeInterceptor"
    /\ callbackNodeMoveto = "callback"
    /\ _ready = FALSE
    /\ identifier = None
    /\ backendDict = {}
    /\ treeInterceptorSize = 1
    /\ mainNode = None
    /\ nodes = <<>>
    /\ updating = TRUE
    /\ _curNode = None
    /\ caretNode = None
    /\ deleted = <<>>
    /\ pc = "parse"
    /\ size = 1
    /\ caret = 0
    /\ result = "none"
    /\ ret = "none"
    /\ sent = <<>>
    /\ notified = NoNotified
    /\ verified = FALSE
    /\ readyExtent = 0
    /\ sawUnavailable = FALSE

\* the lists of values a className criterion is given
ClassValues ==
    { << << 97 >> >>, << << 97 >>, << 98 >> >>, << << 97, 98 >> >> }

\* eq_className / in_className with one or two listed values
ClassKwargs ==
    { << Criterion(test, "className", 0, values) >> :
      test \in {"eq", "in"}, values \in ClassValues }

\* NodeManager.searchNode(eq_className=...) or (in_className=...)
call_searchClass ==
    /\ pc = "idle"
    /\ call = NoCall
    /\ \E kwargs \in ClassKwargs :
          LET found == NodeManager_searchNode(<<>>, <<>>, 0, kwargs) IN
          call' = [op |-> "searchNode", roots |-> <<>>, exclude |-> <<>>,
                   maxIndex |-> 0, kwargs |-> kwargs, text |-> <<>>,
                   offset |-> 0, r |-> found.r, raised |-> found.raised]
    /\ UNCHANGED << source, manager, frame, history, XMLText, builder, received >>

NextClass ==
    \/ Parse
    \/ update_afterParse
    \/ call_searchClass

SpecClass == InitClass /\ [][NextClass]_vars

\* ------------------------------------------------------------ specification
Next ==
    \/ source_ready
    \/ source_mutate
    \/ update_call
    \/ update_unavailable
    \/ update_probeFailed
    \/ update_noChange
    \/ update_changed
    \/ update_snapshotRaised
    \/ update_empty
    \/ update_parseRaised
    \/ update_noTree
    \/ update_built
    \/ update_caret
    \/ update_postProbeFailed
    \/ update_stale
    \/ update_ready
    \/ terminate
    \/ addBackend
    \/ get_isReady

Spec == Init /\ [][Next]_vars

\* ================================================================= claims
\* the searches the claims try on a state
SearchTexts == { << 97 >>, << 99 >>, << 122 >> }

SearchKwargs ==
    { <<>>,
      << Criterion("eq", "role", 0, << "link" >>) >>,
      << Criterion("eq", "role", 0, << "section", "link" >>),
         Criterion("in", "text", 0, << << 97 >> >>) >> }

SearchOffsets == 0 .. (MaxCaret + 1)

\* every search of the manager answers empty / None
SearchesEmpty ==
    /\ \A text \in SearchTexts : NodeManager_searchString(text) = Returned(<<>>)
    /\ \A kwargs \in SearchKwargs :
          NodeManager_searchNode(<<>>, <<>>, 0, kwargs) = Returned(<<>>)
    /\ \A offset \in SearchOffsets :
          NodeManager_searchOffset(offset) = Returned(<<>>)

\* mainNode is the root of a tree some parse built to its end
TreeComplete ==
    /\ mainNode # None
    /\ \E d \in DocIds :
          LET b == parseXML(Docs[d]) IN
          ~b.raised /\ nodes = b.nodes /\ mainNode = b.mainNode

\* no object of the sequence keeps a link
AllSevered(objects) ==
    \A i \in 1 .. Len(objects) :
        /\ objects[i].parent = None
        /\ objects[i].previousTextNode = None
        /\ ~objects[i].nodeManager
        /\ objects[i].children = <<>>

\* C1: whenever the post-build probe of update() succeeds and yields an extent
\* other than the one probed before the snapshot (the local `size`), update()
\* returns False, isReady is false on return, and the one signal sent is
\* 'updateNodeManager' (so 'nodeManagerUpdated' is not sent).
C1_RaceDetected ==
    [][ (/\ pc = "postProbe"
         /\ pc' = "idle"
         /\ ret' # "postProbeFailed"
         /\ srcSize # size)
        => (/\ result' = "False"
            /\ ~isReady'
            /\ sent' = << "updateNodeManager" >>) ]_vars

C1_Witness ==
    /\ pc = "idle"
    /\ ret = "stale"
    /\ srcSize # treeInterceptorSize
    /\ result = "False"
    /\ sent = << "updateNodeManager" >>
    /\ ~isReady

\* C2 (as claimed): in every state, isReady is true only if the source is
\* readable and mainNode is a completely built tree of a build whose
\* pre-build and post-build probes agreed.
C2_ReadinessSafety ==
    isReady => (Readable /\ TreeComplete /\ verified)

\* C3 (as claimed): when a handler meets an unknown tag, or character data
\* under a parent that cannot hold text, update() ends without an exception,
\* with isReady false, no tree held and the previous tree torn down.
C3_MalformedHandled ==
    (pc = "idle" /\ ret = "parseRaised")
    => (/\ result = "False"
        /\ ~isReady
        /\ mainNode = None
        /\ AllSevered(deleted))

\* C4 (as claimed): between update() calls the recorded extent is the
\* pre-build extent of the last update() that ended Ready, 0 if none.
C4_RecordedExtentOfLastReady ==
    (pc = "idle" /\ treeInterceptor # "None")
    => treeInterceptorSize = readyExtent

\* C5 (as claimed): the update() that follows one that ended Stale, with the
\* source readable and its extent probed, never takes the no-change exit:
\* it goes on to the snapshot.
C5_RetryRebuilds ==
    [][ (/\ pc = "update"
         /\ ret = "stale"
         /\ Readable
         /\ pc' # "update"
         /\ ret' # "probeFailed")
        => pc' = "snapshot" ]_vars

C7_UnavailableForcesNotReady ==
    sawUnavailable => ~isReady

\* C7 (amended): an update() call that finds the source missing or unreadable
\* clears _ready and returns False; and _ready, once false, becomes true only
\* by the post-build step of an update() whose post-build extent equals the
\* pre-build one, over a complete tree.  So after such an update() isReady
\* stays false until a later build verifies, whatever the source does.
C7_UpdateForcesNotReady ==
    [][ /\ (pc = "update" /\ ~Readable /\ pc' # "update")
           => (~_ready' /\ pc' = "idle" /\ result' = "False")
        /\ (~_ready /\ _ready')
           => (/\ pc = "postProbe"
               /\ result' = "True"
               /\ srcSize = size
               /\ TreeComplete
               /\ UNCHANGED << mainNode, nodes >>) ]_vars

C7_Witness ==
    /\ pc = "idle"
    /\ ret = "unavailable"
    /\ identifier # None
    /\ mainNode # None
    /\ Readable
    /\ ~isReady

\* C8 (as claimed): whenever update() returns True, _curNode and caretNode are
\* the node the offset search finds on the new tree for the caret's offset.
C8_CaretNodeCaptured ==
    [][ (pc = "postProbe" /\ result' = "True")
        => (/\ _curNode' = searchOffset(nodes, mainNode, caret)
            /\ caretNode' = searchOffset(nodes, mainNode, caret)) ]_vars

\* C9: update() called with the source readable and its probed extent equal
\* to the recorded one returns False at once (no snapshot, no build), leaves
\* the tree, _ready, identifier, the current and caret nodes and the recorded
\* extent as they were, and sends no signal.
C9_NoChangePath ==
    [][ (/\ pc = "update"
         /\ Readable
         /\ srcSize = treeInterceptorSize
         /\ pc' # "update"
         /\ ret' # "probeFailed")
        => (/\ pc' = "idle"
            /\ result' = "False"
            /\ sent' = <<>>
            /\ UNCHANGED << mainNode, nodes, deleted, _ready, identifier,
                            _curNode, caretNode, treeInterceptorSize >>) ]_vars

C9_Witness ==
    /\ pc = "idle"
    /\ ret = "noChange"
    /\ result = "False"
    /\ srcSize = treeInterceptorSize
    /\ isReady
    /\ TreeComplete

\* C10: terminate() on a live manager calls event_nodeManagerTerminated once
\* on each registered backend and on no other, and moves the whole tree to the
\* torn-down objects; once treeInterceptor is None it stays None, no tree,
\* callback, current or caret node is held, isReady is false, every search
\* answers empty / None, and update() returns False with no build, no signal.
C10_Terminated ==
    /\ [] (treeInterceptor = "None"
           => (/\ ~isReady
               /\ mainNode = None
               /\ nodes = <<>>
               /\ AllSevered(deleted)
               /\ callbackNodeMoveto = "None"
               /\ _curNode = None
               /\ caretNode = None
               /\ SearchesEmpty))
    /\ [][ /\ (treeInterceptor # "None" /\ treeInterceptor' = "None")
              => (/\ notified' =
                       [b \in Backends |-> IF b \in backendDict THEN 1 ELSE 0]
                  /\ Len(deleted') >= Len(nodes))
           /\ treeInterceptor = "None" => treeInterceptor' = "None"
           /\ (treeInterceptor = "None" /\ pc = "update" /\ pc' # "update")
              => (/\ pc' = "idle"
                  /\ result' = "False"
                  /\ sent' = <<>>
                  /\ UNCHANGED << mainNode, nodes, deleted >>) ]_vars

C10_Witness ==
    /\ treeInterceptor = "None"
    /\ pc = "update"
    /\ \A b \in Backends : notified[b] = 1
    /\ deleted # <<>>

\* --------------------------------------------- reading a tree (claims)
RECURSIVE Ancestors(_)
Ancestors(n) ==
    IF nodes[n].parent = None THEN {}
    ELSE {nodes[n].parent} \cup Ancestors(nodes[n].parent)

NodeIds == 1 .. Len(nodes)

\* the nodes of a set in document order (nodes are numbered as they are made)
RECURSIVE Ordered(_)
Ordered(S) ==
    IF S = {} THEN <<>>
    ELSE LET n == CHOOSE m \in S : \A k \in S : m <= k IN
         << n >> \o Ordered(S \ {n})

IsControl(n) == HasAttr(nodes, n, "control")

HoldsText(n) == HasAttr(nodes, n, "text")

\* a Text leaf: a node that holds text and has no child
TextLeaf(n) == HoldsText(n) /\ nodes[n].children = <<>>

\* the text of the Text leaves under n, concatenated in document order
RECURSIVE ConcatText(_)
ConcatText(list) ==
    IF list = <<>> THEN <<>>
    ELSE nodes[Head(list)].text \o ConcatText(Tail(list))

SubtreeText(n) ==
    ConcatText(Ordered({ m \in NodeIds :
                           TextLeaf(m) /\ (m = n \/ n \in Ancestors(m)) }))

\* two node lists equal as Python compares them (NodeField.__eq__)
SameByOffset(r, expected) ==
    /\ Len(r) = Len(expected)
    /\ \A i \in 1 .. Len(r) : nodes[r[i]].offset = nodes[expected[i]].offset

\* a search from the root, without cap, that returned
RootCall(op) ==
    /\ call.op = op
    /\ call.roots = <<>>
    /\ call.exclude = <<>>
    /\ call.maxIndex = 0

\* C11 (as claimed): searchNode with eq_role=["link"], in_text=["b"] returns
\* the Control nodes of role link whose subtree text contains "b" (compared
\* as Python compares node lists, by offset).
C11_ReturnsControls ==
    (RootCall("searchNode") /\ call.kwargs = KwRoleText)
    => (/\ ~call.raised
        /\ SameByOffset(call.r,
               Ordered({ n \in NodeIds :
                           /\ IsControl(n)
                           /\ nodes[n].role = "link"
                           /\ Contains(SubtreeText(n), << 98 >>) })))

\* C11 (amended): searchNode with eq_role=["link"], in_text=["b"] returns, in
\* document order, the nodes holding text whose own content contains "b" and
\* that lie (under no other node holding text) in the subtree of an outermost
\* Control of role link, one reached from the root through Controls only.
C11_ReturnsTextNodes ==
    (RootCall("searchNode") /\ call.kwargs = KwRoleText)
    => (/\ ~call.raised
        /\ call.r =
             Ordered({ n \in NodeIds :
                 /\ HoldsText(n)
                 /\ Contains(nodes[n].text, << 98 >>)
                 /\ \A a \in Ancestors(n) : ~HoldsText(a)
                 /\ \E c \in Ancestors(n) :
                       /\ IsControl(c)
                       /\ nodes[c].role = "link"
                       /\ \A a \in Ancestors(c) :
                             IsControl(a) /\ nodes[a].role # "link" }))

\* two link Controls, "ab" under the first and "a" under the second: the
\* search returned one node, the Text leaf of the first
C11_Witness ==
    /\ RootCall("searchNode")
    /\ call.kwargs = KwRoleText
    /\ Cardinality({ n \in NodeIds : IsControl(n) /\ nodes[n].role = "link" }) = 2
    /\ Len(call.r) = 1
    /\ TextLeaf(call.r[1])
    /\ nodes[call.r[1]].text = << 97, 98 >>
    /\ \E n \in NodeIds : TextLeaf(n) /\ nodes[n].text = << 97 >>

\* node n meets criterion c: its property matches one of the listed values
Satisfies(n, c) ==
    LET candidates == IF c.prop = "className" THEN Split(nodes[n].className)
                      ELSE << nodes[n].role >>
    IN \E i \in 1 .. Len(candidates), j \in 1 .. Len(c.values) :
          \/ c.test = "eq" /\ c.values[j] = candidates[i]
          \/ /\ c.test = "in"
             /\ candidates[i] # <<>>
             /\ Contains(candidates[i], StripStars(c.values[j]))

\* only eq_ / in_ criteria, none on text or prevText
PlainCriteria(kwargs) ==
    \A k \in 1 .. Len(kwargs) :
        kwargs[k].test \in {"eq", "in"} /\ kwargs[k].prop \notin {"text", "prevText"}

\* C12 (as claimed): with eq_ / in_ criteria only, every Control node that
\* searchNode returns meets every criterion given to the call, whatever its
\* ancestors met.
C12_ConjunctivePerNode ==
    (call.op = "searchNode" /\ ~call.raised /\ PlainCriteria(call.kwargs))
    => \A i \in 1 .. Len(call.r) :
          IsControl(call.r[i])
          => \A k \in 1 .. Len(call.kwargs) : Satisfies(call.r[i], call.kwargs[k])

\* node n carries the class of criterion c (a notIn_ / notEq_ className)
Carries(n, c) ==
    LET tokens == Split(nodes[n].className) IN
    \E i \in 1 .. Len(tokens), j \in 1 .. Len(c.values) :
       IF c.test = "notEq" THEN tokens[i] = c.values[j]
       ELSE tokens[i] # <<>> /\ Contains(tokens[i], StripStars(c.values[j]))

\* C13 (as claimed): a searchNode call with a notIn_className (or notEq_)
\* criterion, over a tree in which some node carries the listed class,
\* returns an empty result.
C13_GlobalShortCircuit ==
    (/\ RootCall("searchNode")
     /\ call.kwargs \in {KwNotInRole, KwNotEqRole}
     /\ \E n \in NodeIds : IsControl(n) /\ Carries(n, call.kwargs[1]))
    => (~call.raised /\ call.r = <<>>)

\* C13 (amended): a notIn_ / notEq_ match empties only the subtree of the
\* Control it is found on.  With notIn_className=["h"] (or notEq_) and
\* eq_role=["link"], the result is, in document order, the link Controls that
\* do not carry h and whose ancestors are Controls that neither carry h nor
\* are links; nodes found in other subtrees, earlier or later, are kept.
C13_SubtreeShortCircuit ==
    (RootCall("searchNode") /\ call.kwargs \in {KwNotInRole, KwNotEqRole})
    => (/\ ~call.raised
        /\ call.r =
             Ordered({ n \in NodeIds :
                 /\ IsControl(n)
                 /\ nodes[n].role = "link"
                 /\ ~Carries(n, call.kwargs[1])
                 /\ \A a \in Ancestors(n) :
                       /\ IsControl(a)
                       /\ nodes[a].role # "link"
                       /\ ~Carries(a, call.kwargs[1]) }))

\* a link of class h after a link without it: the search returned the first
C13_Witness ==
    /\ RootCall("searchNode")
    /\ call.kwargs = KwNotInRole
    /\ \E n \in NodeIds : IsControl(n) /\ Carries(n, KwNotInRole[1])
    /\ call.r # <<>>
    /\ \A i \in 1 .. Len(call.r) : ~Carries(call.r[i], KwNotInRole[1])

\* what the search of `call` returns when called without a cap
Uncapped ==
    IF call.op = "searchNode"
    THEN NodeManager_searchNode(call.roots, call.exclude, 0, call.kwargs).r
    ELSE searchString(nodes, mainNode, call.text, call.exclude, 0, 0)

\* C14 (as claimed): a search called with maxIndex = n > 0 returns at most n
\* nodes, counted over all subtrees and all designated roots, and they are
\* the first n nodes of what the same search returns without a cap.
C14_ResultCap ==
    (call.op \in {"searchNode", "searchString"} /\ call.maxIndex > 0 /\ ~call.raised)
    => (/\ Len(call.r) <= call.maxIndex
        /\ Len(call.r) <= Len(Uncapped)
        /\ call.r = SubSeq(Uncapped, 1, Len(call.r))
        /\ Len(call.r) < call.maxIndex => call.r = Uncapped)

\* node n holds text that contains one of the candidate substrings
Matches(n, text) ==
    HoldsText(n) /\ \E i \in 1 .. Len(text) : Contains(nodes[n].text, text[i])

\* n lies in the subtree of e
InSubtree(n, e) == n = e \/ e \in Ancestors(n)

\* C15 (as claimed): searchString(text, exclude=E) returns, in document
\* order, exactly the Text leaves whose content contains a candidate and that
\* do not lie in the subtree of a node of E.
C15_ExcludedSubtreesOnly ==
    (call.op = "searchString" /\ call.maxIndex = 0)
    => call.r =
         Ordered({ n \in NodeIds :
             /\ TextLeaf(n)
             /\ Matches(n, call.text)
             /\ \A i \in 1 .. Len(call.exclude) : ~InSubtree(n, call.exclude[i]) })

\* C15 (amended): searchString(text, exclude=E) on the root returns, in
\* document order, exactly the nodes that hold text containing a candidate,
\* lie under no other node holding text, and have no node on the path from a
\* child of the root down to themselves whose offset is the offset of a member
\* of E.  The root itself is not tested against E.
C15_ExcludedByOffset ==
    (call.op = "searchString" /\ call.maxIndex = 0)
    => call.r =
         Ordered({ n \in NodeIds :
             /\ Matches(n, call.text)
             /\ \A a \in Ancestors(n) : ~HoldsText(a)
             /\ \A m \in (Ancestors(n) \cup {n}) \ {mainNode} :
                   \A i \in 1 .. Len(call.exclude) :
                      nodes[m].offset # nodes[call.exclude[i]].offset })

\* a leaf outside the excluded subtree was dropped, another was returned
C15_Witness ==
    /\ call.op = "searchString"
    /\ call.maxIndex = 0
    /\ Len(call.exclude) = 1
    /\ call.r # <<>>
    /\ \E n \in NodeIds :
          /\ TextLeaf(n)
          /\ Matches(n, call.text)
          /\ ~InSubtree(n, call.exclude[1])
          /\ \A i \in 1 .. Len(call.r) : call.r[i] # n

\* offset o lies in the interval of node n
Covers(n, o) == nodes[n].offset <= o /\ o < nodes[n].offset + nodes[n].size

\* C16 (as claimed): on a Ready tree, searchOffset(o) returns the Text leaf
\* whose interval [offset, offset + size) contains o, and None when no Text
\* leaf contains o.
C16_OffsetSearch ==
    call.op = "searchOffset"
    => (/\ ~call.raised
        /\ \A n \in NodeIds :
              (TextLeaf(n) /\ Covers(n, call.offset)) => call.r = << n >>
        /\ (\A n \in NodeIds : ~(TextLeaf(n) /\ Covers(n, call.offset)))
              => call.r = <<>>)

\* the parse delivered every event and closed every element of a tree
ParseDone ==
    /\ XMLText = <<>>
    /\ ~builder.raised
    /\ builder.currentParentNode = None
    /\ mainNode # None
    /\ Len(received) = Len(nodes)

RECURSIVE SumSizes(_)
SumSizes(list) ==
    IF list = <<>> THEN 0 ELSE nodes[Head(list)].size + SumSizes(Tail(list))

\* C17 (as claimed): after a build, the size of every node that holds no
\* text is the sum of the sizes of its children, and the size of every node
\* that holds text is the number of characters it received.
C17_SizeAggregation ==
    ParseDone
    => \A n \in NodeIds :
          IF HoldsText(n) THEN nodes[n].size = received[n]
          ELSE nodes[n].size = SumSizes(nodes[n].children)

\* C18 (as claimed): after a build, the running offset counter (the number
\* of characters delivered) is the sum of the content lengths of the Text
\* leaves and is the size of the root.
C18_RoundTrip ==
    ParseDone
    => (/\ builder.fieldOffset
             = Len(ConcatText(Ordered({ n \in NodeIds : TextLeaf(n) })))
        /\ builder.fieldOffset = nodes[mainNode].size)

\* C19: in every tree the builder makes (also while it is being built), the
\* Text leaves taken in document order have strictly increasing offsets and
\* intervals [offset, offset + size) that do not overlap.
C19_OffsetMonotonic ==
    \A n, m \in NodeIds :
       (n < m /\ TextLeaf(n) /\ TextLeaf(m))
       => (/\ nodes[n].offset < nodes[m].offset
           /\ nodes[n].offset + nodes[n].size <= nodes[m].offset)

\* a built tree with three Text leaves, one of which received more
\* characters than it holds
C19_Witness ==
    /\ ParseDone
    /\ Cardinality({ n \in NodeIds : TextLeaf(n) }) >= 3
    /\ \E n \in NodeIds : TextLeaf(n) /\ received[n] > nodes[n].size

\* C20: whenever the manager discards a tree (update() before a parse,
\* terminate()), every node of that tree is afterwards without parent,
\* previousTextNode, nodeManager and children; every torn-down object stays
\* so; and the nodes not torn down form at most one tree, rooted at mainNode,
\* to which _curNode and caretNode belong when they are not torn down.
C20_TeardownSevers ==
    /\ [] (/\ AllSevered(deleted)
           /\ (mainNode = None) = (nodes = <<>>)
           /\ mainNode # None => mainNode = 1 /\ nodes[1].parent = None
           /\ \A n \in 2 .. Len(nodes) : nodes[n].parent \in 1 .. (n - 1)
           /\ \A n \in 1 .. Len(nodes) :
                 \A i \in 1 .. Len(nodes[n].children) :
                    nodes[nodes[n].children[i]].parent = n
           /\ \A ref \in {_curNode, caretNode} :
                 /\ ref > 0 => ref \in 1 .. Len(nodes)
                 /\ ref < 0 => -ref \in 1 .. Len(deleted))
    /\ [][ (mainNode # None /\ nodes' # nodes)
           => (/\ Len(deleted') >= Len(nodes)
               /\ \A n \in 1 .. Len(nodes) :
                     LET object == deleted'[Len(deleted') - Len(nodes) + n] IN
                     /\ object.offset = nodes[n].offset
                     /\ object.role = nodes[n].role
                     /\ object.parent = None
                     /\ object.previousTextNode = None
                     /\ ~object.nodeManager
                     /\ object.children = <<>>) ]_vars

\* a second tree is live after the first, of four nodes, was torn down
C20_Witness ==
    /\ pc = "idle"
    /\ identifier = 2
    /\ mainNode # None
    /\ Len(nodes) = 4
    /\ Len(deleted) >= 4
    /\ AllSevered(deleted)

\* the last call was script `op`, made on a Ready manager that does not
\* pass keys through
Navigated(op) == call.op = op /\ call.ready /\ ~call.passThrough

\* C21 (as claimed): on a Ready manager script_nextItem and
\* script_previousItem never raise: either they report the boundary ("Bas du
\* document" / "Debut du document") and leave the current node as it was, or
\* they move the current node to a node of the tree.
C21_NavigationBoundary ==
    \A op \in {"script_nextItem", "script_previousItem"} :
       Navigated(op)
       => (/\ ~call.raised
           /\ \/ /\ call.end = "boundary"
                 /\ call.message = (IF op = "script_nextItem"
                                    THEN "Bas du document"
                                    ELSE "Debut du document")
                 /\ _curNode = call.from
              \/ /\ call.end = "moved"
                 /\ call.message = ""
                 /\ _curNode \in NodeIds)

\* C22: an update() call sends at most one scheduler signal:
\* 'nodeManagerUpdated' exactly when it returns True, 'updateNodeManager'
\* exactly when the extent probed after the build differs from the one
\* probed before it, and nothing on every other path or while it runs.
C22_SignalDiscipline ==
    /\ [] (/\ Len(sent) <= 1
           /\ pc # "idle" => sent = <<>>
           /\ pc = "idle"
              => (/\ (sent = << "nodeManagerUpdated" >>) = (result = "True")
                  /\ (sent = << "updateNodeManager" >>) = (ret = "stale")
                  /\ ret \notin {"ready", "stale"} => sent = <<>>))
    /\ [][ (pc = "postProbe" /\ pc' = "idle" /\ ret' # "postProbeFailed")
           => (/\ (srcSize # size) = (sent' = << "updateNodeManager" >>)
               /\ (srcSize = size) = (sent' = << "nodeManagerUpdated" >>)
               /\ (srcSize = size) = (result' = "True")) ]_vars

\* an update() returned by the retry exit, having sent 'updateNodeManager',
\* after an earlier update() had ended Ready
C22_Witness ==
    /\ pc = "idle"
    /\ ret = "stale"
    /\ result = "False"
    /\ sent = << "updateNodeManager" >>
    /\ readyExtent # 0

\* C23 (as claimed): a script_nextItem that does not report the bottom
\* leaves the current node at or after the end of the previous current
\* node's span, and a script_previousItem that does not report the top leaves
\* it at a strictly smaller offset.
C23_NavigationProgress ==
    /\ (Navigated("script_nextItem") /\ call.end = "moved")
       => nodes[_curNode].offset
             >= nodes[call.from].offset + nodes[call.from].size
    /\ (Navigated("script_previousItem") /\ call.end = "moved")
       => nodes[_curNode].offset < nodes[call.from].offset

\* the space-separated tokens of a class attribute: the maximal runs
\* without a space
Tokens(className) ==
    { SubSeq(className, p[1], p[2]) :
        p \in { q \in (1 .. Len(className)) \X (1 .. Len(className)) :
            /\ q[1] <= q[2]
            /\ \A k \in q[1] .. q[2] : className[k] # SPACE
            /\ q[1] = 1 \/ className[q[1] - 1] = SPACE
            /\ q[2] = Len(className) \/ className[q[2] + 1] = SPACE } }

\* one space between tokens, none before or after
WellFormed(className) ==
    /\ className # <<>>
    /\ className[1] # SPACE
    /\ className[Len(className)] # SPACE
    /\ \A k \in 1 .. (Len(className) - 1) :
          ~(className[k] = SPACE /\ className[k + 1] = SPACE)

\* at least one token equals (eq) or contains (in) one of the listed values
TokenMatch(className, c) ==
    \E token \in Tokens(className) :
       \E i \in 1 .. Len(c.values) :
          IF c.test = "eq" THEN token = c.values[i]
          ELSE Contains(token, c.values[i])

\* C24 (as claimed): a search by eq_className or in_className alone never
\* raises and returns a Control whose className holds one or more tokens
\* exactly when at least one token equals (contains) a listed value, whatever
\* its other tokens are.
C24_TokenWise ==
    (call.op = "searchNode" /\ WellFormed(nodes[2].className))
    => (/\ ~call.raised
        /\ call.r = IF TokenMatch(nodes[2].className, call.kwargs[1])
                    THEN << 2 >> ELSE <<>>)

\* the nodes met by following previousTextNode links from n, n excluded
RECURSIVE Chain(_)
Chain(n) ==
    IF nodes[n].previousTextNode = None THEN <<>>
    ELSE << nodes[n].previousTextNode >> \o Chain(nodes[n].previousTextNode)

\* C25: while and after a tree is built, the parse's lastTextNode is the
\* node that most recently received character data (None before the first),
\* every node made is stamped with it when its element opens, and the
\* previousTextNode of a node holds text, was made before the node and has a
\* strictly smaller offset; so the links from any node lead through
\* text-holding nodes in strictly decreasing document order to None.
C25_PreviousTextChain ==
    /\ [] (\A n \in NodeIds :
              LET prev == nodes[n].previousTextNode IN
              /\ prev # None
                 => (/\ prev \in 1 .. (n - 1)
                     /\ HoldsText(prev)
                     /\ received[prev] > 0
                     /\ nodes[prev].offset < nodes[n].offset)
              /\ \A i \in 1 .. Len(Chain(n)) :
                    /\ HoldsText(Chain(n)[i])
                    /\ Chain(n)[i] < (IF i = 1 THEN n ELSE Chain(n)[i - 1]))
    /\ [][ (pc = "parse" /\ XMLText # <<>>)
           => (/\ builder'.lastTextNode =
                     (IF \E n \in 1 .. Len(received) : received'[n] > received[n]
                      THEN CHOOSE n \in 1 .. Len(received) :
                              received'[n] > received[n]
                      ELSE builder.lastTextNode)
               /\ \A n \in (Len(nodes) + 1) .. Len(nodes') :
                     nodes'[n].previousTextNode = builder.lastTextNode
               /\ \A n \in 1 .. Len(nodes) :
                     nodes'[n].previousTextNode = nodes[n].previousTextNode) ]_vars

\* a built tree in which a chain of previousTextNode links has three nodes
\* and some node made after the first character data has an ancestor as its
\* previousTextNode
C25_Witness ==
    /\ ParseDone
    /\ \E n \in NodeIds : Len(Chain(n)) >= 3
    /\ \E n \in NodeIds : nodes[n].previousTextNode = nodes[n].parent
                          /\ nodes[n].parent # None

=============================================================================
